---- MODULE Spec2Model ----
(***************************************************************************)
(* Swoosh cross-chain intent contracts (Arbitrum Stylus).                  *)
(*                                                                         *)
(*   RouteExecutor       src/contracts/src/route_executor.rs               *)
(*   SettlementVerifier  src/contracts/src/settlement_verifier.rs          *)
(*   IntentValidator     src/contracts/src/intent_validator.rs             *)
(*                                                                         *)
(* Every public method is one action.  The storage of a contract is a      *)
(* group of variables prefixed re_ (RouteExecutor), sv_                    *)
(* (SettlementVerifier) or iv_ (IntentValidator); the remaining            *)
(* variables are history (the last                                         *)
(* call that returned, the notifications it logged, what has been          *)
(* returned so far).                                                       *)
(*                                                                         *)
(* execute_full_route is the one method with positions inside it: the      *)
(* swap step and the bridge step are the places where an external          *)
(* service runs, and where a nested call of execute_full_route can         *)
(* arrive.  In the source both steps log their event and return Ok; they   *)
(* have no failing path.                                                   *)
(***************************************************************************)
EXTENDS Integers, Sequences, FiniteSets, TLC

\* ---------------------------------------------------------------- bounds
MaxPrincipal == 2      \* callers 1..MaxPrincipal; 0 is Address::ZERO
MaxArgAddress == 1     \* address arguments 0..MaxArgAddress
MaxIntents == 2        \* the intent counter is capped here
MaxAmount == 1         \* amounts 0..MaxAmount
MaxSwapLen == 1        \* swap payloads: empty, or of this length
MaxSettleId == 1       \* settlement ids 0..MaxSettleId
MaxTicks == 1          \* the clock advances at most this many times
StartTime == 1         \* block_timestamp of the first state
ShortTimeout == 1      \* a timeout period the owner may set
WordBits == 11         \* U256 is modelled with this many bits
MaxChain == 1          \* chain ids 0..MaxChain

\* self.timeout_period.set(U256::from(1800))
DefaultTimeout == 1800

ZERO == 0
Address == 0..MaxArgAddress
Sender == 1..MaxPrincipal
Amount == 0..MaxAmount
SwapLen == {0, MaxSwapLen}
IntentId == 0..(MaxIntents + 1)
SettleId == 0..MaxSettleId
ChainId == 0..MaxChain
\* U256 values are 0..U256_MAX; U256 arithmetic is modulo U256_MAX + 1
U256_MAX == 2^WordBits - 1
TimeoutChoice == {0, ShortTimeout, DefaultTimeout, U256_MAX}

\* --------------------------------------------- enum SettlementStatus
SettlementStatus_Pending == 0
SettlementStatus_Confirmed == 1
SettlementStatus_Failed == 2
SettlementStatus_Refunded == 3

\* ------------------------------------------------- enum IntentStatus
IntentStatus_Pending == 0
IntentStatus_Executing == 1
IntentStatus_Completed == 2
IntentStatus_Failed == 3

VARIABLES
    re_owner,            \* RouteExecutor.owner
    re_validator,        \* RouteExecutor.validator
    re_ccip_router,      \* RouteExecutor.ccip_router
    intent_counter,      \* RouteExecutor.intent_counter
    intent_statuses,     \* RouteExecutor.intent_statuses
    paused,              \* RouteExecutor.paused
    locked,              \* RouteExecutor.locked
    re_pc,               \* position of the execute_full_route call in flight
    re_frame,            \* its locals: intent_id, user
    re_log,              \* events logged by the current / last outermost call
    re_last,             \* the last call that returned
    re_initialized,      \* history: an init has succeeded
    re_returned,         \* history: ids returned by successful calls
    re_prev_id,          \* history: id of the last success since the last init
    sv_owner,            \* SettlementVerifier.owner
    route_executor,      \* SettlementVerifier.route_executor
    sv_ccip_router,      \* SettlementVerifier.ccip_router
    settlements,         \* SettlementVerifier.settlements
    settlement_timestamps, \* SettlementVerifier.settlement_timestamps
    timeout_period,      \* SettlementVerifier.timeout_period
    now,                 \* block_timestamp
    sv_log,              \* events logged by the last SettlementVerifier call
    sv_last,             \* the last SettlementVerifier call that returned
    sv_verified,         \* history: successful verify_ccip_message calls per id
    iv_owner,            \* IntentValidator.owner
    supported_chains,    \* IntentValidator.supported_chains
    supported_tokens,    \* IntentValidator.supported_tokens
    iv_log,              \* events logged by the last IntentValidator call
    iv_last,             \* the last IntentValidator call that returned
    iv_args              \* inputs of the validate_intent call under study

re_storage == <<re_owner, re_validator, re_ccip_router, intent_counter,
                intent_statuses, paused, locked>>
re_vars == <<re_storage, re_pc, re_frame, re_log, re_last, re_initialized,
             re_returned, re_prev_id>>

sv_storage == <<sv_owner, route_executor, sv_ccip_router, settlements,
                settlement_timestamps, timeout_period>>
sv_vars == <<sv_storage, now, sv_log, sv_last, sv_verified>>

iv_storage == <<iv_owner, supported_chains, supported_tokens>>
iv_vars == <<iv_storage, iv_log, iv_last, iv_args>>

\* history of a call's validation: which of its inputs were null / zero
\* when the inline validation examined them
ZeroInputs(token_in, amount, recipient) ==
    {f \in {"token_in", "amount", "recipient"} :
        \/ f = "token_in" /\ token_in = ZERO
        \/ f = "amount" /\ amount = 0
        \/ f = "recipient" /\ recipient = ZERO}

\* the call returned before its validation
NotValidated == {"not validated"}

NoFrame == [intent_id |-> 0, user |-> 0, zeros |-> {}, swap_len |-> 0]

\* the record of a returned call; n flips when the call repeats the previous
\* one with the same result, so that every return is a step
RetValidated(op, caller, res, id, nested, zeros) ==
    LET same == /\ re_last.op = op /\ re_last.caller = caller /\ re_last.res = res
                /\ re_last.id = id /\ re_last.nested = nested
                /\ re_last.zeros = zeros
    IN  [op |-> op, caller |-> caller, res |-> res, id |-> id, nested |-> nested,
         zeros |-> zeros, n |-> IF same THEN 1 - re_last.n ELSE 0]

Ret(op, caller, res, id, nested) ==
    RetValidated(op, caller, res, id, nested, NotValidated)

\* ------------------------------------------------------ private helpers
\* variant of only_owner that lets every caller through
only_owner_Open(sender, owner) == "Ok"

\* fn only_owner
only_owner(sender, owner) ==
    IF sender # owner THEN "Unauthorized" ELSE "Ok"

\* variant of check_not_locked that never rejects
check_not_locked_Open(is_locked) == "Ok"

\* fn check_not_locked
check_not_locked(is_locked) ==
    IF is_locked THEN "ReentrancyGuard" ELSE "Ok"

\* variant of EntryGuard without the paused check
EntryGuard_NoPause(is_paused, is_locked) == check_not_locked(is_locked)

\* the paused check and the reentrancy guard that open execute_full_route
EntryGuard(is_paused, is_locked) ==
    IF is_paused THEN "ContractPaused" ELSE check_not_locked(is_locked)

\* variant: the amount is checked before the addresses, and the recipient
\* is not checked
BasicValidation_AmountFirst(token_in, amount, recipient) ==
    IF amount = 0 THEN "InvalidAmount"
    ELSE IF token_in = ZERO THEN "InvalidAddress"
    ELSE "Ok"

\* the inline validation of execute_full_route
BasicValidation(token_in, amount, recipient) ==
    IF token_in = ZERO \/ recipient = ZERO THEN "InvalidAddress"
    ELSE IF amount = 0 THEN "InvalidAmount"
    ELSE "Ok"

\* variant: the early validation return forgets self.locked.set(false)
LockOnValidationError_Held == TRUE

\* the value of locked an early validation return leaves behind
LockOnValidationError == FALSE

\* variant: the id is the counter itself
NextIntentId_Same(counter) == counter

\* let intent_id = self.intent_counter.get() + U256::from(1)
NextIntentId(counter) == counter + 1

\* ------------------------------------------------------------- RouteExecutor
\* pub fn init
RouteExecutor_init(sender, validator_address, ccip_router_address) ==
    /\ re_pc = "idle"
    /\ IF validator_address = ZERO \/ ccip_router_address = ZERO
       THEN /\ re_last' = Ret("init", sender, "InvalidAddress", 0, FALSE)
            /\ UNCHANGED <<re_storage, re_initialized, re_prev_id>>
       ELSE /\ re_owner' = sender
            /\ re_validator' = validator_address
            /\ re_ccip_router' = ccip_router_address
            /\ intent_counter' = 0
            /\ paused' = FALSE
            /\ locked' = FALSE
            /\ re_last' = Ret("init", sender, "Ok", 0, FALSE)
            /\ re_initialized' = TRUE
            /\ re_prev_id' = 0
            /\ UNCHANGED intent_statuses
    /\ re_log' = <<>>
    /\ UNCHANGED <<re_pc, re_frame, re_returned>>
    /\ UNCHANGED <<sv_vars, iv_vars>>

\* variant: the end of the route records Failed
FinishRoute_Failed(intent_id, user, log) ==
    /\ intent_statuses' = [intent_statuses EXCEPT ![intent_id] = IntentStatus_Failed]
    /\ intent_counter' = intent_id
    /\ re_log' = Append(log, <<"IntentExecuted", intent_id>>)
    /\ locked' = FALSE
    /\ re_returned' = re_returned \cup {intent_id}
    /\ re_prev_id' = intent_id

\* execute_full_route, lines 203-218: the bridge step has returned Ok
FinishRoute(intent_id, user, log) ==
    /\ intent_statuses' = [intent_statuses EXCEPT ![intent_id] = IntentStatus_Completed]
    /\ intent_counter' = intent_id
    /\ re_log' = Append(log, <<"IntentExecuted", intent_id>>)
    /\ locked' = FALSE
    /\ re_returned' = re_returned \cup {intent_id}
    /\ re_prev_id' = intent_id

\* pub fn execute_full_route, from its entry to the first external step
execute_full_route(sender, token_in, amount, recipient, swap_len) ==
    /\ re_pc = "idle"
    /\ intent_counter < MaxIntents
    /\ LET guard == EntryGuard(paused, locked)
           intent_id == NextIntentId(intent_counter)
           valid == BasicValidation(token_in, amount, recipient)
           zeros == ZeroInputs(token_in, amount, recipient)
       IN  IF guard # "Ok"
           THEN /\ re_last' = Ret("execute_full_route", sender, guard, 0, FALSE)
                /\ re_log' = <<>>
                /\ UNCHANGED <<re_storage, re_pc, re_frame>>
           ELSE IF valid # "Ok"
           THEN /\ locked' = LockOnValidationError
                /\ re_last' = RetValidated("execute_full_route", sender, valid, 0,
                                            FALSE, zeros)
                /\ re_log' = <<>>
                /\ UNCHANGED <<re_owner, re_validator, re_ccip_router,
                               intent_counter, intent_statuses, paused, re_pc,
                               re_frame>>
           ELSE /\ locked' = TRUE
                /\ intent_statuses' =
                       [intent_statuses EXCEPT ![intent_id] = IntentStatus_Executing]
                /\ re_frame' = [intent_id |-> intent_id, user |-> sender,
                                 zeros |-> zeros, swap_len |-> swap_len]
                /\ re_pc' = IF swap_len > 0 THEN "swap" ELSE "bridge"
                /\ re_log' = <<>>
                /\ UNCHANGED <<re_owner, re_validator, re_ccip_router,
                               intent_counter, paused, re_last>>
    /\ UNCHANGED <<re_initialized, re_returned, re_prev_id>>
    /\ UNCHANGED <<sv_vars, iv_vars>>

\* variant: the swap step logs nothing
internal_execute_swap_Silent ==
    /\ re_pc = "swap"
    /\ re_pc' = "bridge"
    /\ UNCHANGED <<re_storage, re_frame, re_log, re_last, re_initialized,
                   re_returned, re_prev_id>>
    /\ UNCHANGED <<sv_vars, iv_vars>>

\* fn internal_execute_swap returns Ok(amount)
internal_execute_swap ==
    /\ re_pc = "swap"
    /\ re_log' = Append(re_log, <<"SwapExecuted", re_frame.intent_id>>)
    /\ re_pc' = "bridge"
    /\ UNCHANGED <<re_storage, re_frame, re_last, re_initialized, re_returned,
                   re_prev_id>>
    /\ UNCHANGED <<sv_vars, iv_vars>>

\* fn internal_execute_bridge returns Ok(()), and the call runs to its end
internal_execute_bridge ==
    /\ re_pc = "bridge"
    /\ FinishRoute(re_frame.intent_id, re_frame.user,
                   Append(re_log, <<"BridgeInitiated", re_frame.intent_id>>))
    /\ re_last' = RetValidated("execute_full_route", re_frame.user, "Ok",
                               re_frame.intent_id, FALSE, re_frame.zeros)
    /\ re_pc' = "idle"
    /\ re_frame' = NoFrame
    /\ UNCHANGED <<re_owner, re_validator, re_ccip_router, paused, re_initialized>>
    /\ UNCHANGED <<sv_vars, iv_vars>>

\* a call of execute_full_route arriving while the swap or bridge step of
\* another one is in progress; it runs from entry to return
nested_execute_full_route(sender, token_in, amount, recipient, swap_len) ==
    /\ re_pc \in {"swap", "bridge"}
    /\ intent_counter < MaxIntents
    /\ LET guard == EntryGuard(paused, locked)
           intent_id == NextIntentId(intent_counter)
           valid == BasicValidation(token_in, amount, recipient)
           zeros == ZeroInputs(token_in, amount, recipient)
       IN  IF guard # "Ok"
           THEN /\ re_last' = Ret("execute_full_route", sender, guard, 0, TRUE)
                /\ UNCHANGED <<re_storage, re_log, re_returned, re_prev_id>>
           ELSE IF valid # "Ok"
           THEN /\ locked' = LockOnValidationError
                /\ re_last' = RetValidated("execute_full_route", sender, valid, 0,
                                            TRUE, zeros)
                /\ UNCHANGED <<re_owner, re_validator, re_ccip_router,
                               intent_counter, intent_statuses, paused, re_log,
                               re_returned, re_prev_id>>
           ELSE /\ FinishRoute(intent_id, sender,
                      IF swap_len > 0
                      THEN re_log \o << <<"SwapExecuted", intent_id>>,
                                         <<"BridgeInitiated", intent_id>> >>
                      ELSE Append(re_log, <<"BridgeInitiated", intent_id>>))
                /\ re_last' = RetValidated("execute_full_route", sender, "Ok",
                                            intent_id, TRUE, zeros)
                /\ UNCHANGED <<re_owner, re_validator, re_ccip_router, paused>>
    /\ UNCHANGED <<re_pc, re_frame, re_initialized>>
    /\ UNCHANGED <<sv_vars, iv_vars>>

\* pub fn get_intent_status
get_intent_status(intent_id) == intent_statuses[intent_id]

\* pub fn pause
pause(sender) ==
    /\ re_pc = "idle"
    /\ LET auth == only_owner(sender, re_owner)
       IN  IF auth # "Ok"
           THEN /\ re_last' = Ret("pause", sender, auth, 0, FALSE)
                /\ re_log' = <<>>
                /\ UNCHANGED paused
           ELSE /\ paused' = TRUE
                /\ re_log' = << <<"Paused", sender>> >>
                /\ re_last' = Ret("pause", sender, "Ok", 0, FALSE)
    /\ UNCHANGED <<re_owner, re_validator, re_ccip_router, intent_counter,
                   intent_statuses, locked, re_pc, re_frame, re_initialized,
                   re_returned, re_prev_id>>
    /\ UNCHANGED <<sv_vars, iv_vars>>

\* pub fn unpause
unpause(sender) ==
    /\ re_pc = "idle"
    /\ LET auth == only_owner(sender, re_owner)
       IN  IF auth # "Ok"
           THEN /\ re_last' = Ret("unpause", sender, auth, 0, FALSE)
                /\ re_log' = <<>>
                /\ UNCHANGED paused
           ELSE /\ paused' = FALSE
                /\ re_log' = << <<"Unpaused", sender>> >>
                /\ re_last' = Ret("unpause", sender, "Ok", 0, FALSE)
    /\ UNCHANGED <<re_owner, re_validator, re_ccip_router, intent_counter,
                   intent_statuses, locked, re_pc, re_frame, re_initialized,
                   re_returned, re_prev_id>>
    /\ UNCHANGED <<sv_vars, iv_vars>>

\* -------------------------------------------------------- SettlementVerifier
SvRet(op, caller, res, id) ==
    LET same == /\ sv_last.op = op /\ sv_last.caller = caller /\ sv_last.res = res
                /\ sv_last.id = id
    IN  [op |-> op, caller |-> caller, res |-> res, id |-> id,
         n |-> IF same THEN 1 - sv_last.n ELSE 0]

\* fn only_owner
sv_only_owner(sender, owner) ==
    IF sender # owner THEN "Unauthorized" ELSE "Ok"

\* variant of only_ccip_router that lets every caller through
only_ccip_router_Open(sender, router) == "Ok"

\* fn only_ccip_router
only_ccip_router(sender, router) ==
    IF sender # router THEN "Unauthorized" ELSE "Ok"

\* variant: the two comparisons are joined by || instead of &&
only_authorized_Either(sender, owner, executor) ==
    IF sender # owner \/ sender # executor THEN "Unauthorized" ELSE "Ok"

\* fn only_authorized
only_authorized(sender, owner, executor) ==
    IF sender # owner /\ sender # executor THEN "Unauthorized" ELSE "Ok"

\* variant: only a Confirmed settlement counts as processed
AlreadyProcessed_OnlyConfirmed(current_status) ==
    current_status = SettlementStatus_Confirmed

\* verify_ccip_message: current_status != Pending
AlreadyProcessed(current_status) ==
    current_status # SettlementStatus_Pending

\* settlement_time + timeout, on U256: the + of U256 wraps around
Deadline(settlement_time, timeout) ==
    (settlement_time + timeout) % (U256_MAX + 1)

\* handle_failure: settlement_time != 0 && current_time > settlement_time + timeout
TimeoutOccurred(settlement_time, current_time, timeout) ==
    settlement_time # 0 /\ current_time > Deadline(settlement_time, timeout)

\* variant: the comparison with the deadline is >= instead of >
has_settlement_timed_out_Inclusive(intent_id) ==
    IF settlement_timestamps[intent_id] = 0 THEN FALSE
    ELSE now >= Deadline(settlement_timestamps[intent_id], timeout_period)

\* pub fn has_settlement_timed_out
has_settlement_timed_out(intent_id) ==
    IF settlement_timestamps[intent_id] = 0 THEN FALSE
    ELSE now > Deadline(settlement_timestamps[intent_id], timeout_period)

\* pub fn get_settlement_status
get_settlement_status(intent_id) == settlements[intent_id]

\* pub fn get_settlement_timestamp
get_settlement_timestamp(intent_id) == settlement_timestamps[intent_id]

\* variant: a successful init also clears the settlement maps
SettlementVerifier_init_Clearing(sender, route_executor_address, ccip_router_address) ==
    /\ IF route_executor_address = ZERO \/ ccip_router_address = ZERO
       THEN /\ sv_last' = SvRet("init", sender, "Unauthorized", 0)
            /\ UNCHANGED sv_storage
       ELSE /\ sv_owner' = sender
            /\ route_executor' = route_executor_address
            /\ sv_ccip_router' = ccip_router_address
            /\ timeout_period' = DefaultTimeout
            /\ sv_last' = SvRet("init", sender, "Ok", 0)
            /\ settlements' = [i \in SettleId |-> SettlementStatus_Pending]
            /\ settlement_timestamps' = [i \in SettleId |-> 0]
    /\ sv_log' = <<>>
    /\ UNCHANGED <<now, sv_verified>>
    /\ UNCHANGED <<re_vars, iv_vars>>

\* pub fn init
SettlementVerifier_init(sender, route_executor_address, ccip_router_address) ==
    /\ IF route_executor_address = ZERO \/ ccip_router_address = ZERO
       THEN /\ sv_last' = SvRet("init", sender, "Unauthorized", 0)
            /\ UNCHANGED sv_storage
       ELSE /\ sv_owner' = sender
            /\ route_executor' = route_executor_address
            /\ sv_ccip_router' = ccip_router_address
            /\ timeout_period' = DefaultTimeout
            /\ sv_last' = SvRet("init", sender, "Ok", 0)
            /\ UNCHANGED <<settlements, settlement_timestamps>>
    /\ sv_log' = <<>>
    /\ UNCHANGED <<now, sv_verified>>
    /\ UNCHANGED <<re_vars, iv_vars>>

\* pub fn verify_ccip_message
verify_ccip_message(sender, intent_id) ==
    /\ LET auth == only_ccip_router(sender, sv_ccip_router)
       IN  IF auth # "Ok"
           THEN /\ sv_last' = SvRet("verify_ccip_message", sender, auth, intent_id)
                /\ sv_log' = <<>>
                /\ UNCHANGED <<settlements, settlement_timestamps, sv_verified>>
           ELSE IF intent_id = 0
           THEN /\ sv_last' = SvRet("verify_ccip_message", sender, "InvalidIntentId",
                                    intent_id)
                /\ sv_log' = <<>>
                /\ UNCHANGED <<settlements, settlement_timestamps, sv_verified>>
           ELSE IF AlreadyProcessed(get_settlement_status(intent_id))
           THEN /\ sv_last' = SvRet("verify_ccip_message", sender, "AlreadyProcessed",
                                    intent_id)
                /\ sv_log' = <<>>
                /\ UNCHANGED <<settlements, settlement_timestamps, sv_verified>>
           ELSE /\ settlement_timestamps' =
                       [settlement_timestamps EXCEPT ![intent_id] = now]
                /\ settlements' =
                       [settlements EXCEPT ![intent_id] = SettlementStatus_Confirmed]
                /\ sv_log' = << <<"SettlementConfirmed", intent_id>> >>
                /\ sv_last' = SvRet("verify_ccip_message", sender, "Ok", intent_id)
                /\ sv_verified' = [sv_verified EXCEPT
                       ![intent_id] = IF @ < 2 THEN @ + 1 ELSE @]
    /\ UNCHANGED <<sv_owner, route_executor, sv_ccip_router, timeout_period, now>>
    /\ UNCHANGED <<re_vars, iv_vars>>

\* variant: like verify_ccip_message, it refuses a settlement that is not
\* Pending
confirm_settlement_Guarded(sender, intent_id) ==
    /\ IF intent_id = 0
       THEN /\ sv_last' = SvRet("confirm_settlement", sender, "InvalidIntentId",
                                intent_id)
            /\ UNCHANGED settlements
       ELSE IF AlreadyProcessed(settlements[intent_id])
       THEN /\ sv_last' = SvRet("confirm_settlement", sender, "AlreadyProcessed",
                                intent_id)
            /\ UNCHANGED settlements
       ELSE /\ settlements' =
                   [settlements EXCEPT ![intent_id] = SettlementStatus_Confirmed]
            /\ sv_last' = SvRet("confirm_settlement", sender, "Ok", intent_id)
    /\ sv_log' = <<>>
    /\ UNCHANGED <<sv_owner, route_executor, sv_ccip_router, settlement_timestamps,
                   timeout_period, now, sv_verified>>
    /\ UNCHANGED <<re_vars, iv_vars>>

\* pub fn confirm_settlement
confirm_settlement(sender, intent_id) ==
    /\ IF intent_id = 0
       THEN /\ sv_last' = SvRet("confirm_settlement", sender, "InvalidIntentId",
                                intent_id)
            /\ UNCHANGED settlements
       ELSE /\ settlements' =
                   [settlements EXCEPT ![intent_id] = SettlementStatus_Confirmed]
            /\ sv_last' = SvRet("confirm_settlement", sender, "Ok", intent_id)
    /\ sv_log' = <<>>
    /\ UNCHANGED <<sv_owner, route_executor, sv_ccip_router, settlement_timestamps,
                   timeout_period, now, sv_verified>>
    /\ UNCHANGED <<re_vars, iv_vars>>

\* variant: initiate_refund is not called
handle_failure_NoRefund(sender, intent_id) ==
    /\ LET auth == only_authorized(sender, sv_owner, route_executor)
       IN  IF auth # "Ok"
           THEN /\ sv_last' = SvRet("handle_failure", sender, auth, intent_id)
                /\ sv_log' = <<>>
                /\ UNCHANGED settlements
           ELSE IF intent_id = 0
           THEN /\ sv_last' = SvRet("handle_failure", sender, "InvalidIntentId",
                                    intent_id)
                /\ sv_log' = <<>>
                /\ UNCHANGED settlements
           ELSE IF TimeoutOccurred(settlement_timestamps[intent_id], now,
                                   timeout_period)
           THEN /\ settlements' =
                       [settlements EXCEPT ![intent_id] = SettlementStatus_Failed]
                /\ sv_log' = << <<"SettlementFailed", intent_id>> >>
                /\ sv_last' = SvRet("handle_failure", sender, "Ok", intent_id)
           ELSE /\ sv_last' = SvRet("handle_failure", sender, "Ok", intent_id)
                /\ sv_log' = <<>>
                /\ UNCHANGED settlements
    /\ UNCHANGED <<sv_owner, route_executor, sv_ccip_router, settlement_timestamps,
                   timeout_period, now, sv_verified>>
    /\ UNCHANGED <<re_vars, iv_vars>>

\* pub fn handle_failure, with fn initiate_refund
handle_failure(sender, intent_id) ==
    /\ LET auth == only_authorized(sender, sv_owner, route_executor)
       IN  IF auth # "Ok"
           THEN /\ sv_last' = SvRet("handle_failure", sender, auth, intent_id)
                /\ sv_log' = <<>>
                /\ UNCHANGED settlements
           ELSE IF intent_id = 0
           THEN /\ sv_last' = SvRet("handle_failure", sender, "InvalidIntentId",
                                    intent_id)
                /\ sv_log' = <<>>
                /\ UNCHANGED settlements
           ELSE IF TimeoutOccurred(settlement_timestamps[intent_id], now,
                                   timeout_period)
           THEN \* Failed is written, then initiate_refund overwrites it
                /\ settlements' =
                       [[settlements EXCEPT ![intent_id] = SettlementStatus_Failed]
                           EXCEPT ![intent_id] = SettlementStatus_Refunded]
                /\ sv_log' = << <<"SettlementFailed", intent_id>>,
                                <<"RefundInitiated", intent_id>> >>
                /\ sv_last' = SvRet("handle_failure", sender, "Ok", intent_id)
           ELSE /\ sv_last' = SvRet("handle_failure", sender, "Ok", intent_id)
                /\ sv_log' = <<>>
                /\ UNCHANGED settlements
    /\ UNCHANGED <<sv_owner, route_executor, sv_ccip_router, settlement_timestamps,
                   timeout_period, now, sv_verified>>
    /\ UNCHANGED <<re_vars, iv_vars>>

\* variant: a zero timeout is not stored
set_timeout_period_NonZero(sender, new_timeout) ==
    /\ LET auth == sv_only_owner(sender, sv_owner)
       IN  IF auth # "Ok"
           THEN /\ sv_last' = SvRet("set_timeout_period", sender, auth, 0)
                /\ UNCHANGED timeout_period
           ELSE /\ timeout_period' = IF new_timeout = 0 THEN timeout_period
                                                        ELSE new_timeout
                /\ sv_last' = SvRet("set_timeout_period", sender, "Ok", 0)
    /\ sv_log' = <<>>
    /\ UNCHANGED <<sv_owner, route_executor, sv_ccip_router, settlements,
                   settlement_timestamps, now, sv_verified>>
    /\ UNCHANGED <<re_vars, iv_vars>>

\* pub fn set_timeout_period
set_timeout_period(sender, new_timeout) ==
    /\ LET auth == sv_only_owner(sender, sv_owner)
       IN  IF auth # "Ok"
           THEN /\ sv_last' = SvRet("set_timeout_period", sender, auth, 0)
                /\ UNCHANGED timeout_period
           ELSE /\ timeout_period' = new_timeout
                /\ sv_last' = SvRet("set_timeout_period", sender, "Ok", 0)
    /\ sv_log' = <<>>
    /\ UNCHANGED <<sv_owner, route_executor, sv_ccip_router, settlements,
                   settlement_timestamps, now, sv_verified>>
    /\ UNCHANGED <<re_vars, iv_vars>>

\* block_timestamp grows between calls
Tick ==
    /\ now - StartTime < MaxTicks
    /\ now' = now + 1
    /\ UNCHANGED <<sv_storage, sv_log, sv_last, sv_verified>>
    /\ UNCHANGED <<re_vars, iv_vars>>

vars == <<re_vars, sv_vars, iv_vars>>

\* ----------------------------------------------------------- IntentValidator
\* the inputs of one validate_intent call: its five arguments and what the
\* token contract answers to balanceOf(user) and allowance(user, spender)
ValidateArgs ==
    [user : Address, token : Address, amount : Amount,
     destination_chain : ChainId, spender : Address,
     balance : Amount, allowance : Amount]

NoArgs ==
    [user |-> ZERO, token |-> ZERO, amount |-> 0, destination_chain |-> 0,
     spender |-> ZERO, balance |-> 0, allowance |-> 0]

IvRet(op, caller, res, arg) ==
    LET same == /\ iv_last.op = op /\ iv_last.caller = caller /\ iv_last.res = res
                /\ iv_last.arg = arg
    IN  [op |-> op, caller |-> caller, res |-> res, arg |-> arg,
         n |-> IF same THEN 1 - iv_last.n ELSE 0]

\* fn only_owner
iv_only_owner(sender, owner) ==
    IF sender # owner THEN "Unauthorized" ELSE "Ok"

\* pub fn is_chain_supported
is_chain_supported(chain_id) == supported_chains[chain_id]

\* pub fn is_token_supported
is_token_supported(token) == supported_tokens[token]

\* variant: the token allow-list is consulted before the chain allow-list
ValidationOutcome_TokenFirst(user, token, amount, destination_chain, spender, balance, allowance) ==
    IF amount = 0 THEN "InvalidAmount"
    ELSE IF user = ZERO \/ token = ZERO \/ spender = ZERO THEN "InvalidAddress"
    ELSE IF ~is_token_supported(token) THEN "UnsupportedToken"
    ELSE IF ~is_chain_supported(destination_chain) THEN "UnsupportedChain"
    ELSE IF balance < amount THEN "InsufficientBalance"
    ELSE IF allowance < amount THEN "InsufficientAllowance"
    ELSE "Ok"

\* the checks of validate_intent in the order of the source; Ok stands for
\* Ok(true)
ValidationOutcome(user, token, amount, destination_chain, spender, balance, allowance) ==
    IF amount = 0 THEN "InvalidAmount"
    ELSE IF user = ZERO \/ token = ZERO \/ spender = ZERO THEN "InvalidAddress"
    ELSE IF ~is_chain_supported(destination_chain) THEN "UnsupportedChain"
    ELSE IF ~is_token_supported(token) THEN "UnsupportedToken"
    ELSE IF balance < amount THEN "InsufficientBalance"
    ELSE IF allowance < amount THEN "InsufficientAllowance"
    ELSE "Ok"

\* variant: the setter stores the negation of the current flag
AddedFlag_Toggle(current) == ~current

\* supported_chains.setter(chain_id).set(true), and the same for tokens
AddedFlag(current) == TRUE

\* variant of init that also empties both allow-lists
IntentValidator_init_Reset(sender) ==
    /\ iv_owner' = sender
    /\ supported_chains' = [c \in ChainId |-> FALSE]
    /\ supported_tokens' = [t \in Address |-> FALSE]
    /\ iv_last' = IvRet("init", sender, "Ok", 0)
    /\ iv_log' = <<>>
    /\ UNCHANGED iv_args
    /\ UNCHANGED <<re_vars, sv_vars>>

\* pub fn init
IntentValidator_init(sender) ==
    /\ iv_owner' = sender
    /\ iv_last' = IvRet("init", sender, "Ok", 0)
    /\ iv_log' = <<>>
    /\ UNCHANGED <<supported_chains, supported_tokens, iv_args>>
    /\ UNCHANGED <<re_vars, sv_vars>>

\* variant: a token that passed validation is taken off the allow-list
validate_intent_Consuming(user, token, amount, destination_chain, spender, balance, allowance) ==
    /\ LET res == ValidationOutcome(user, token, amount, destination_chain,
                                    spender, balance, allowance)
       IN  /\ iv_last' = IvRet("validate_intent", ZERO, res, 0)
           /\ iv_log' = IF res = "Ok"
                        THEN << <<"IntentValidated", user, token, amount,
                                  destination_chain>> >>
                        ELSE <<>>
           /\ supported_tokens' = IF res = "Ok"
                                  THEN [supported_tokens EXCEPT ![token] = FALSE]
                                  ELSE supported_tokens
    /\ UNCHANGED <<iv_owner, supported_chains, iv_args>>
    /\ UNCHANGED <<re_vars, sv_vars>>

\* pub fn validate_intent(&self, ...): it reads the storage and msg_sender is
\* not consulted; balance and allowance are the token contract's answers
validate_intent(user, token, amount, destination_chain, spender, balance, allowance) ==
    /\ LET res == ValidationOutcome(user, token, amount, destination_chain,
                                    spender, balance, allowance)
       IN  /\ iv_last' = IvRet("validate_intent", ZERO, res, 0)
           /\ iv_log' = IF res = "Ok"
                        THEN << <<"IntentValidated", user, token, amount,
                                  destination_chain>> >>
                        ELSE <<>>
    /\ UNCHANGED <<iv_storage, iv_args>>
    /\ UNCHANGED <<re_vars, sv_vars>>

\* lib.rs, mod active_contract: the checks of its validate_intent in the
\* order of the source; the spender is ignored (_spender) and the token
\* contract is not called, so balance and allowance play no part
active_contract_ValidationOutcome(user, token, amount, destination_chain, spender, balance, allowance) ==
    IF amount = 0 THEN "InvalidAmount"
    ELSE IF user = ZERO \/ token = ZERO THEN "InvalidAddress"
    ELSE IF ~supported_chains[destination_chain] THEN "UnsupportedChain"
    ELSE IF ~supported_tokens[token] THEN "UnsupportedToken"
    ELSE "Ok"

\* lib.rs, mod active_contract: pub fn validate_intent(&self, ...)
active_contract_validate_intent(user, token, amount, destination_chain, spender, balance, allowance) ==
    /\ LET res == active_contract_ValidationOutcome(user, token, amount,
                                                    destination_chain, spender,
                                                    balance, allowance)
       IN  /\ iv_last' = IvRet("active_contract_validate_intent", ZERO, res, 0)
           /\ iv_log' = IF res = "Ok"
                        THEN << <<"IntentValidated", user, token, amount,
                                  destination_chain>> >>
                        ELSE <<>>
    /\ UNCHANGED <<iv_storage, iv_args>>
    /\ UNCHANGED <<re_vars, sv_vars>>

\* pub fn add_supported_chain
add_supported_chain(sender, chain_id) ==
    /\ LET auth == iv_only_owner(sender, iv_owner)
       IN  IF auth # "Ok"
           THEN /\ iv_last' = IvRet("add_supported_chain", sender, auth, chain_id)
                /\ iv_log' = <<>>
                /\ UNCHANGED supported_chains
           ELSE IF chain_id = 0
           THEN /\ iv_last' = IvRet("add_supported_chain", sender,
                                    "InvalidAmount", chain_id)
                /\ iv_log' = <<>>
                /\ UNCHANGED supported_chains
           ELSE /\ supported_chains' =
                       [supported_chains EXCEPT ![chain_id] = AddedFlag(@)]
                /\ iv_log' = << <<"ChainAdded", chain_id>> >>
                /\ iv_last' = IvRet("add_supported_chain", sender, "Ok", chain_id)
    /\ UNCHANGED <<iv_owner, supported_tokens, iv_args>>
    /\ UNCHANGED <<re_vars, sv_vars>>

\* pub fn add_supported_token
add_supported_token(sender, token) ==
    /\ LET auth == iv_only_owner(sender, iv_owner)
       IN  IF auth # "Ok"
           THEN /\ iv_last' = IvRet("add_supported_token", sender, auth, token)
                /\ iv_log' = <<>>
                /\ UNCHANGED supported_tokens
           ELSE IF token = ZERO
           THEN /\ iv_last' = IvRet("add_supported_token", sender,
                                    "InvalidAddress", token)
                /\ iv_log' = <<>>
                /\ UNCHANGED supported_tokens
           ELSE /\ supported_tokens' =
                       [supported_tokens EXCEPT ![token] = AddedFlag(@)]
                /\ iv_log' = << <<"TokenAdded", token>> >>
                /\ iv_last' = IvRet("add_supported_token", sender, "Ok", token)
    /\ UNCHANGED <<iv_owner, supported_chains, iv_args>>
    /\ UNCHANGED <<re_vars, sv_vars>>

\* storage starts zeroed; the clock starts at StartTime
Init ==
    /\ re_owner = ZERO
    /\ re_validator = ZERO
    /\ re_ccip_router = ZERO
    /\ intent_counter = 0
    /\ intent_statuses = [i \in IntentId |-> IntentStatus_Pending]
    /\ paused = FALSE
    /\ locked = FALSE
    /\ re_pc = "idle"
    /\ re_frame = NoFrame
    /\ re_log = <<>>
    /\ re_last = [op |-> "none", caller |-> 0, res |-> "Ok", id |-> 0,
                  nested |-> FALSE, zeros |-> NotValidated, n |-> 0]
    /\ re_initialized = FALSE
    /\ re_returned = {}
    /\ re_prev_id = 0
    /\ sv_owner = ZERO
    /\ route_executor = ZERO
    /\ sv_ccip_router = ZERO
    /\ settlements = [i \in SettleId |-> SettlementStatus_Pending]
    /\ settlement_timestamps = [i \in SettleId |-> 0]
    /\ timeout_period = 0
    /\ now = StartTime
    /\ sv_log = <<>>
    /\ sv_last = [op |-> "none", caller |-> 0, res |-> "Ok", id |-> 0, n |-> 0]
    /\ sv_verified = [i \in SettleId |-> 0]
    /\ iv_owner = ZERO
    /\ supported_chains = [c \in ChainId |-> FALSE]
    /\ supported_tokens = [t \in Address |-> FALSE]
    /\ iv_log = <<>>
    /\ iv_last = [op |-> "none", caller |-> 0, res |-> "Ok", arg |-> 0, n |-> 0]
    /\ iv_args = NoArgs

ExecutorNext ==
    \/ \E s \in Sender, v \in Address, r \in Address : RouteExecutor_init(s, v, r)
    \/ \E s \in Sender, t \in Address, a \in Amount, r \in Address, l \in SwapLen :
           execute_full_route(s, t, a, r, l)
    \/ internal_execute_swap
    \/ internal_execute_bridge
    \/ \E s \in Sender, t \in Address, a \in Amount, r \in Address, l \in SwapLen :
           nested_execute_full_route(s, t, a, r, l)
    \/ \E s \in Sender : pause(s)
    \/ \E s \in Sender : unpause(s)

ExecutorSpec == Init /\ [][ExecutorNext]_vars

SettlementNext ==
    \/ \E s \in Sender, e \in Address, r \in Address : SettlementVerifier_init(s, e, r)
    \/ \E s \in Sender, i \in SettleId : verify_ccip_message(s, i)
    \/ \E s \in Sender, i \in SettleId : confirm_settlement(s, i)
    \/ \E s \in Sender, i \in SettleId : handle_failure(s, i)
    \/ \E s \in Sender, t \in TimeoutChoice : set_timeout_period(s, t)
    \/ Tick

SettlementSpec == Init /\ [][SettlementNext]_vars

ValidatorNext ==
    \/ \E s \in Sender : IntentValidator_init(s)
    \/ \E u \in Address, t \in Address, a \in Amount, c \in ChainId,
          sp \in Address, b \in Amount, al \in Amount :
           validate_intent(u, t, a, c, sp, b, al)
    \/ \E s \in Sender, c \in ChainId : add_supported_chain(s, c)
    \/ \E s \in Sender, t \in Address : add_supported_token(s, t)

ValidatorSpec == Init /\ [][ValidatorNext]_vars

\* One validate_intent call under study: the storage is any state the
\* Validator can be in (no allow-list entry exists before an owner does, the
\* zero chain and the null token are never listed), the inputs are any
\* combination, and the call is made and repeated, on either of the two
\* implementations.
ValidateInit ==
    /\ re_owner = ZERO
    /\ re_validator = ZERO
    /\ re_ccip_router = ZERO
    /\ intent_counter = 0
    /\ intent_statuses = [i \in IntentId |-> IntentStatus_Pending]
    /\ paused = FALSE
    /\ locked = FALSE
    /\ re_pc = "idle"
    /\ re_frame = NoFrame
    /\ re_log = <<>>
    /\ re_last = [op |-> "none", caller |-> 0, res |-> "Ok", id |-> 0,
                  nested |-> FALSE, zeros |-> NotValidated, n |-> 0]
    /\ re_initialized = FALSE
    /\ re_returned = {}
    /\ re_prev_id = 0
    /\ sv_owner = ZERO
    /\ route_executor = ZERO
    /\ sv_ccip_router = ZERO
    /\ settlements = [i \in SettleId |-> SettlementStatus_Pending]
    /\ settlement_timestamps = [i \in SettleId |-> 0]
    /\ timeout_period = 0
    /\ now = StartTime
    /\ sv_log = <<>>
    /\ sv_last = [op |-> "none", caller |-> 0, res |-> "Ok", id |-> 0, n |-> 0]
    /\ sv_verified = [i \in SettleId |-> 0]
    /\ iv_owner \in {ZERO} \cup Sender
    /\ supported_chains \in [ChainId -> BOOLEAN]
    /\ supported_tokens \in [Address -> BOOLEAN]
    /\ ~supported_chains[0]
    /\ ~supported_tokens[ZERO]
    /\ iv_owner = ZERO => /\ \A c \in ChainId : ~supported_chains[c]
                          /\ \A t \in Address : ~supported_tokens[t]
    /\ iv_log = <<>>
    /\ iv_last = [op |-> "none", caller |-> 0, res |-> "Ok", arg |-> 0, n |-> 0]
    /\ iv_args \in ValidateArgs

ValidateNext ==
    \/ validate_intent(iv_args.user, iv_args.token, iv_args.amount,
                       iv_args.destination_chain, iv_args.spender,
                       iv_args.balance, iv_args.allowance)
    \/ active_contract_validate_intent(iv_args.user, iv_args.token,
                                       iv_args.amount, iv_args.destination_chain,
                                       iv_args.spender, iv_args.balance,
                                       iv_args.allowance)

ValidateSpec == ValidateInit /\ [][ValidateNext]_vars

\* ------------------------------------------------------------ properties
\* a call of op returns in this step
Returns(op) == re_last' # re_last /\ re_last'.op = op

\* C1: a nested call of execute_full_route made while the swap or bridge step
\* of another one is in progress fails with ReentrancyGuard, keeps the outer
\* call's lock held and changes neither the intent counter nor any status.
C1_NestedCallRejected ==
    [][(re_pc \in {"swap", "bridge"} /\ re_pc' = re_pc /\ re_vars' # re_vars)
          => /\ re_last'.nested
             /\ re_last'.op = "execute_full_route"
             /\ re_last'.res = "ReentrancyGuard"
             /\ locked /\ locked'
             /\ intent_counter' = intent_counter
             /\ intent_statuses' = intent_statuses]_vars

C1_Witness ==
    /\ re_pc \in {"swap", "bridge"}
    /\ re_last.nested
    /\ re_last.res = "ReentrancyGuard"
    /\ locked
    /\ intent_statuses[re_frame.intent_id] = IntentStatus_Executing

\* C2: locked is false in every state in which no execute_full_route call is
\* in flight, whichever way the last call returned.
C2_LockReleased == re_pc = "idle" => ~locked

C2_Witness ==
    /\ re_pc = "idle"
    /\ re_last.op = "execute_full_route"
    /\ re_last.res \in {"InvalidAddress", "InvalidAmount"}
    /\ ~locked

\* C3: while paused, a call of execute_full_route returns ContractPaused
\* without entering the route, and leaves counter, statuses, locked and
\* paused as they were.
C3_PausedRejects ==
    [][(paused /\ (Returns("execute_full_route") \/ re_pc' # re_pc))
          => /\ re_last'.res = "ContractPaused"
             /\ re_pc' = re_pc
             /\ UNCHANGED re_storage]_vars

C3_Witness ==
    /\ paused
    /\ re_last.op = "execute_full_route"
    /\ re_last.res = "ContractPaused"

\* C4: once init has succeeded, a later init changes neither the owner, the
\* validator / bridge addresses, the intent counter nor the two flags.
C4_InitOnce ==
    [][(re_initialized /\ Returns("init"))
          => UNCHANGED <<re_owner, re_validator, re_ccip_router, intent_counter,
                         paused, locked>>]_vars

\* C5: the intent counter never decreases, and no successful
\* execute_full_route returns an id that an earlier one returned.
C5_CounterMonotonic ==
    [][/\ intent_counter' >= intent_counter
       /\ (Returns("execute_full_route") /\ re_last'.res = "Ok")
             => re_last'.id \notin re_returned]_vars

C7_TerminalStatus ==
    [][\A i \in IntentId :
          get_intent_status(i) \in {IntentStatus_Completed, IntentStatus_Failed}
             => intent_statuses'[i] = intent_statuses[i]]_vars

\* a SettlementVerifier call of op returns in this step
SvReturns(op) == sv_last' # sv_last /\ sv_last'.op = op

\* C8: once the settlement status of an id is Confirmed, no step changes it
\* to Failed or Refunded.
C8_ConfirmedTerminal ==
    [][\A i \in SettleId :
          get_settlement_status(i) = SettlementStatus_Confirmed
             => settlements'[i] \notin {SettlementStatus_Failed,
                                        SettlementStatus_Refunded}]_vars

\* C9: for an intent whose delivery was never verified, a handle_failure
\* accepted from the owner or the executor after more than the timeout
\* period has elapsed leaves the settlement Refunded.
C9_UnconfirmedRefunded ==
    [][(/\ SvReturns("handle_failure")
        /\ sv_last'.res = "Ok"
        /\ sv_verified[sv_last'.id] = 0
        /\ get_settlement_status(sv_last'.id) = SettlementStatus_Pending
        /\ now - StartTime > timeout_period)
          => settlements'[sv_last'.id] = SettlementStatus_Refunded]_vars

\* C10: at most one verify_ccip_message succeeds per intent id; a later one
\* that passes the caller and id checks returns AlreadyProcessed and leaves
\* statuses and timestamps as they were.
C10_VerifyOnce ==
    [][SvReturns("verify_ccip_message")
          => /\ sv_last'.res = "Ok" => sv_verified[sv_last'.id] = 0
             /\ (sv_verified[sv_last'.id] > 0
                   /\ sv_last'.caller = sv_ccip_router /\ sv_last'.id # 0)
                   => /\ sv_last'.res = "AlreadyProcessed"
                      /\ UNCHANGED <<settlements, settlement_timestamps>>]_vars

C10_Witness ==
    /\ sv_last.op = "verify_ccip_message"
    /\ sv_last.res = "AlreadyProcessed"
    /\ sv_verified[sv_last.id] = 1
    /\ get_settlement_status(sv_last.id) = SettlementStatus_Refunded

\* C11: for a recorded timestamp T # 0 and timeout period P, an accepted
\* handle_failure at a time <= T + P changes no settlement, and at a time
\* > T + P leaves the settlement Refunded.
C11_TimeoutBoundary ==
    [][(/\ SvReturns("handle_failure")
        /\ sv_last'.res = "Ok"
        /\ get_settlement_timestamp(sv_last'.id) # 0)
          => LET T == get_settlement_timestamp(sv_last'.id)
                 P == timeout_period
             IN  /\ now <= T + P => settlements' = settlements
                 /\ now > T + P
                       => settlements'[sv_last'.id] = SettlementStatus_Refunded]_vars

\* C12: an accepted handle_failure for an id whose timestamp is zero, or
\* whose timeout has not yet elapsed, returns Ok, logs nothing and leaves
\* statuses, timestamps and the timeout period as they were.
C12_SilentNoOp ==
    [][(/\ SvReturns("handle_failure")
        /\ only_authorized(sv_last'.caller, sv_owner, route_executor) = "Ok"
        /\ sv_last'.id # 0
        /\ \/ get_settlement_timestamp(sv_last'.id) = 0
           \/ now - get_settlement_timestamp(sv_last'.id) <= timeout_period)
          => /\ sv_last'.res = "Ok"
             /\ sv_log' = <<>>
             /\ UNCHANGED <<settlements, settlement_timestamps, timeout_period>>]_vars

\* C13: verify_ccip_message by a caller other than the bridge principal
\* returns Unauthorized, whatever the intent id and its status, and changes
\* no settlement status or timestamp.
C13_VerifyUnauthorized ==
    [][(/\ SvReturns("verify_ccip_message")
        /\ sv_last'.caller # sv_ccip_router)
          => /\ sv_last'.res = "Unauthorized"
             /\ UNCHANGED <<settlements, settlement_timestamps>>]_vars

\* a caller other than the bridge principal was refused for an id that is
\* already Confirmed
C13_Witness ==
    /\ sv_last.op = "verify_ccip_message"
    /\ sv_last.res = "Unauthorized"
    /\ sv_ccip_router # ZERO
    /\ sv_last.caller # sv_ccip_router
    /\ get_settlement_status(sv_last.id) = SettlementStatus_Confirmed

\* C14: handle_failure by a caller that is neither the owner nor the
\* Executor principal returns Unauthorized and changes nothing; by an
\* authorized caller with intent id zero it returns InvalidIntentId and
\* changes nothing.
C14_FailureAuthorization ==
    [][SvReturns("handle_failure")
          => LET authorized == \/ sv_last'.caller = sv_owner
                               \/ sv_last'.caller = route_executor
             IN  /\ ~authorized => /\ sv_last'.res = "Unauthorized"
                                   /\ sv_log' = <<>>
                                   /\ UNCHANGED sv_storage
                 /\ (authorized /\ sv_last'.id = 0)
                       => /\ sv_last'.res = "InvalidIntentId"
                          /\ sv_log' = <<>>
                          /\ UNCHANGED sv_storage]_vars

\* an unauthorized caller was refused for a settlement whose timeout has
\* elapsed
C14_Witness ==
    /\ sv_last.op = "handle_failure"
    /\ sv_last.res = "Unauthorized"
    /\ sv_owner # ZERO
    /\ has_settlement_timed_out(sv_last.id)

\* C15: pause and unpause by a caller other than the owner return
\* Unauthorized and leave paused as it was; by the owner they set paused to
\* TRUE and FALSE; neither touches locked, the counter or an intent status.
C15_PauseUnpause ==
    [][/\ Returns("pause")
          => IF re_last'.caller # re_owner
             THEN re_last'.res = "Unauthorized" /\ paused' = paused
             ELSE re_last'.res = "Ok" /\ paused' = TRUE
       /\ Returns("unpause")
          => IF re_last'.caller # re_owner
             THEN re_last'.res = "Unauthorized" /\ paused' = paused
             ELSE re_last'.res = "Ok" /\ paused' = FALSE
       /\ (Returns("pause") \/ Returns("unpause"))
          => UNCHANGED <<locked, intent_counter, intent_statuses>>]_vars

\* the owner has paused, and a caller other than the owner was refused the
\* unpause
C15_Witness ==
    /\ re_last.op = "unpause"
    /\ re_last.res = "Unauthorized"
    /\ re_owner # ZERO
    /\ paused
    /\ intent_counter > 0

\* C20: an unpaused, unlocked execute_full_route with a null token_in or a
\* null recipient returns InvalidAddress, and with amount zero (addresses
\* non-null) returns InvalidAmount; in both cases it leaves the lock
\* released, the counter where it was and every intent status unwritten.
C20_ValidationFailure ==
    [][(~paused /\ ~locked /\ re_pc = "idle")
          => /\ (Returns("execute_full_route") /\ re_last'.zeros # NotValidated)
                => /\ ("token_in" \in re_last'.zeros \/ "recipient" \in re_last'.zeros)
                      => re_last'.res = "InvalidAddress"
                   /\ re_last'.zeros = {"amount"}
                      => re_last'.res = "InvalidAmount"
                   /\ re_last'.zeros # {}
                      => /\ ~locked'
                         /\ re_pc' = "idle"
                         /\ intent_counter' = intent_counter
                         /\ intent_statuses' = intent_statuses
             /\ re_pc' # "idle" => re_frame'.zeros = {}
             /\ Returns("execute_full_route") => re_last'.zeros # NotValidated]_vars

\* after a completed route, a call was refused with InvalidAmount: the lock
\* is free and the id it would have taken is still Pending
C20_Witness ==
    /\ re_last.op = "execute_full_route"
    /\ re_last.res = "InvalidAmount"
    /\ re_last.zeros = {"amount"}
    /\ ~paused /\ ~locked /\ re_pc = "idle"
    /\ intent_counter = 1
    /\ get_intent_status(NextIntentId(intent_counter)) = IntentStatus_Pending

\* an IntentValidator call named op has returned in this step
IvReturns(op) == iv_last' # iv_last /\ iv_last'.op = op

\* C16: validate_intent reports the earliest failing precondition in the
\* order InvalidAmount, InvalidAddress, UnsupportedChain, UnsupportedToken,
\* InsufficientBalance, InsufficientAllowance, and succeeds only when no
\* precondition fails.
C16_FirstFailingCheck ==
    iv_last.op = "validate_intent"
       => LET order == <<"InvalidAmount", "InvalidAddress", "UnsupportedChain",
                         "UnsupportedToken", "InsufficientBalance",
                         "InsufficientAllowance">>
              fails == <<iv_args.amount = 0,
                         \/ iv_args.user = ZERO
                         \/ iv_args.token = ZERO
                         \/ iv_args.spender = ZERO,
                         ~is_chain_supported(iv_args.destination_chain),
                         ~is_token_supported(iv_args.token),
                         iv_args.balance < iv_args.amount,
                         iv_args.allowance < iv_args.amount>>
              failing == {i \in 1..6 : fails[i]}
          IN  /\ failing = {} <=> iv_last.res = "Ok"
              /\ failing # {}
                    => \E i \in failing : /\ \A j \in failing : i <= j
                                          /\ iv_last.res = order[i]

\* three preconditions fail at once (chain, token, balance) and the chain
\* error, the earliest of them, is the one reported
C16_Witness ==
    /\ iv_last.op = "validate_intent"
    /\ iv_last.res = "UnsupportedChain"
    /\ ~is_token_supported(iv_args.token)
    /\ iv_args.balance < iv_args.amount

\* C17: a validate_intent call, successful or not, leaves the owner and both
\* allow-lists as they were, and the same call repeated with the same
\* balance and allowance returns the same outcome.
C17_ValidateReadOnly ==
    [][IvReturns("validate_intent")
          => /\ UNCHANGED <<iv_owner, supported_chains, supported_tokens>>
             /\ iv_last.op = "validate_intent" => iv_last'.res = iv_last.res]_vars

\* a successful validation was repeated and succeeded again
C17_Witness ==
    /\ iv_last.op = "validate_intent"
    /\ iv_last.res = "Ok"
    /\ iv_last.n = 1
    /\ iv_log # <<>>

\* C18: a chain or token that is supported stays supported after every
\* Validator operation.
C18_MembershipMonotonic ==
    [][/\ \A c \in ChainId : is_chain_supported(c) => is_chain_supported(c)'
       /\ \A t \in Address : is_token_supported(t) => is_token_supported(t)']_vars

\* a chain and a token are supported, and the last call was an init by a
\* principal who thereby replaced the owner that listed them
C18_Witness ==
    /\ iv_last.op = "init"
    /\ iv_last.n = 0
    /\ \E c \in ChainId : is_chain_supported(c)
    /\ \E t \in Address : is_token_supported(t)

\* C19: add_supported_chain / add_supported_token by the owner for a value
\* already listed returns Ok and leaves both allow-lists as they were; by a
\* caller other than the owner they return Unauthorized and leave both
\* allow-lists as they were.
C19_AddIdempotent ==
    [][/\ IvReturns("add_supported_chain")
          => /\ iv_last'.caller # iv_owner
                => /\ iv_last'.res = "Unauthorized"
                   /\ UNCHANGED <<supported_chains, supported_tokens>>
             /\ (iv_last'.caller = iv_owner /\ is_chain_supported(iv_last'.arg))
                => /\ iv_last'.res = "Ok"
                   /\ UNCHANGED <<supported_chains, supported_tokens>>
       /\ IvReturns("add_supported_token")
          => /\ iv_last'.caller # iv_owner
                => /\ iv_last'.res = "Unauthorized"
                   /\ UNCHANGED <<supported_chains, supported_tokens>>
             /\ (iv_last'.caller = iv_owner /\ is_token_supported(iv_last'.arg))
                => /\ iv_last'.res = "Ok"
                   /\ UNCHANGED <<supported_chains, supported_tokens>>]_vars

\* the owner has added the same chain twice in a row, both times with Ok
C19_Witness ==
    /\ iv_last.op = "add_supported_chain"
    /\ iv_last.res = "Ok"
    /\ iv_last.caller = iv_owner
    /\ iv_last.n = 1
    /\ is_chain_supported(iv_last.arg)

\* C21 as stated: every input with amount zero makes validate_intent, and an
\* unpaused, unlocked execute_full_route, fail with InvalidAmount and change
\* no state, whatever the other arguments.
C21_ZeroAmountAlways ==
    /\ \A a \in ValidateArgs :
          a.amount = 0
             => ValidationOutcome(a.user, a.token, a.amount, a.destination_chain,
                                  a.spender, a.balance, a.allowance)
                   = "InvalidAmount"
    /\ [][(~paused /\ ~locked /\ re_pc = "idle")
             => /\ (Returns("execute_full_route") /\ "amount" \in re_last'.zeros)
                   => /\ re_last'.res = "InvalidAmount"
                      /\ UNCHANGED re_storage
                /\ re_pc' # "idle" => "amount" \notin re_frame'.zeros]_vars

\* C21: every input with amount zero makes validate_intent fail with
\* InvalidAmount; an unpaused, unlocked execute_full_route with amount zero
\* fails with InvalidAmount when token_in and recipient are non-null and with
\* InvalidAddress when one of them is null, and changes no state.
C21_ZeroAmount ==
    /\ \A a \in ValidateArgs :
          a.amount = 0
             => ValidationOutcome(a.user, a.token, a.amount, a.destination_chain,
                                  a.spender, a.balance, a.allowance)
                   = "InvalidAmount"
    /\ [][(~paused /\ ~locked /\ re_pc = "idle")
             => /\ (Returns("execute_full_route") /\ "amount" \in re_last'.zeros)
                   => /\ re_last'.res = IF re_last'.zeros = {"amount"}
                                        THEN "InvalidAmount"
                                        ELSE "InvalidAddress"
                      /\ re_log' = <<>>
                      /\ UNCHANGED re_storage
                /\ re_pc' # "idle" => "amount" \notin re_frame'.zeros]_vars

\* after a completed route, a call with amount zero and a null address was
\* refused with InvalidAddress
C21_Witness ==
    /\ re_last.op = "execute_full_route"
    /\ re_last.res = "InvalidAddress"
    /\ "amount" \in re_last.zeros
    /\ ~paused /\ ~locked /\ re_pc = "idle"
    /\ intent_counter > 0

\* C22: an init with a null dependency address (RouteExecutor: validator or
\* bridge; SettlementVerifier: executor or bridge) returns InvalidAddress and
\* leaves the storage of its contract as it was.
C22_InitRejectsNull ==
    [][/\ \A sender \in Sender, v \in Address, r \in Address :
             ((v = ZERO \/ r = ZERO) /\ RouteExecutor_init(sender, v, r))
                => /\ re_last'.res = "InvalidAddress"
                   /\ UNCHANGED re_storage
       /\ \A sender \in Sender, e \in Address, r \in Address :
             ((e = ZERO \/ r = ZERO) /\ SettlementVerifier_init(sender, e, r))
                => /\ sv_last'.res = "InvalidAddress"
                   /\ UNCHANGED sv_storage]_vars

\* C23: a successful execute_full_route leaves the returned id Completed and
\* the counter equal to it, and has logged, in this order, SwapExecuted if
\* and only if the swap payload was non-empty, one BridgeInitiated and one
\* IntentExecuted; with the counter at zero the returned id is 1.
C23_SuccessEffects ==
    [][(Returns("execute_full_route") /\ re_last'.res = "Ok")
          => LET id == re_last'.id
             IN  /\ intent_statuses'[id] = IntentStatus_Completed
                 /\ intent_counter' = id
                 /\ re_log' = (IF re_frame.swap_len > 0
                               THEN << <<"SwapExecuted", id>> >>
                               ELSE <<>>)
                              \o << <<"BridgeInitiated", id>>,
                                    <<"IntentExecuted", id>> >>
                 /\ intent_counter = 0 => id = 1]_vars

\* the first route of an initialized contract, with an empty payload, has
\* returned id 1 with exactly two notifications
C23_Witness ==
    /\ re_last.op = "execute_full_route"
    /\ re_last.res = "Ok"
    /\ re_last.id = 1
    /\ re_initialized
    /\ get_intent_status(1) = IntentStatus_Completed
    /\ re_log = << <<"BridgeInitiated", 1>>, <<"IntentExecuted", 1>> >>

\* C24: confirm_settlement with a non-zero id returns Ok for any caller and
\* sets that settlement to Confirmed whatever its status was, writing no
\* timestamp; with id zero it returns InvalidIntentId and changes nothing.
C24_ConfirmUnconditional ==
    [][SvReturns("confirm_settlement")
          => IF sv_last'.id = 0
             THEN /\ sv_last'.res = "InvalidIntentId"
                  /\ UNCHANGED sv_storage
             ELSE /\ sv_last'.res = "Ok"
                  /\ settlements' = [settlements EXCEPT
                                        ![sv_last'.id] = SettlementStatus_Confirmed]
                  /\ UNCHANGED <<sv_owner, route_executor, sv_ccip_router,
                                 settlement_timestamps, timeout_period>>]_vars

\* a principal that is neither owner, executor nor bridge has confirmed a
\* settlement twice in a row; the settlement is Confirmed with no timestamp
C24_Witness ==
    /\ sv_last.op = "confirm_settlement"
    /\ sv_last.res = "Ok"
    /\ sv_last.n = 1
    /\ sv_owner # ZERO
    /\ sv_last.caller \notin {sv_owner, route_executor, sv_ccip_router}
    /\ get_settlement_status(sv_last.id) = SettlementStatus_Confirmed
    /\ get_settlement_timestamp(sv_last.id) = 0

\* C25: the timeout period is one stored value, 1800 after init.  A
\* set_timeout_period by a caller other than the owner returns Unauthorized
\* and changes nothing; by the owner it stores the new value, zero included,
\* and from then on has_settlement_timed_out and handle_failure decide with
\* that value for every id, whenever its timestamp was recorded.
C25_GlobalTimeout ==
    [][/\ (SvReturns("init") /\ sv_last'.res = "Ok")
          => timeout_period' = DefaultTimeout
       /\ SvReturns("set_timeout_period")
          => IF sv_last'.caller # sv_owner
             THEN /\ sv_last'.res = "Unauthorized"
                  /\ UNCHANGED sv_storage
             ELSE /\ sv_last'.res = "Ok"
                  /\ UNCHANGED <<settlements, settlement_timestamps>>
                  /\ \A t \in TimeoutChoice :
                        set_timeout_period(sv_last'.caller, t)
                           => /\ timeout_period' = t
                              /\ \A id \in SettleId :
                                    has_settlement_timed_out(id)'
                                       <=> /\ settlement_timestamps[id] # 0
                                           /\ now > (settlement_timestamps[id] + t)
                                                       % (U256_MAX + 1)
       /\ (SvReturns("handle_failure") /\ sv_last'.res = "Ok")
          => IF /\ settlement_timestamps[sv_last'.id] # 0
                /\ now > (settlement_timestamps[sv_last'.id] + timeout_period)
                            % (U256_MAX + 1)
             THEN settlements'[sv_last'.id] = SettlementStatus_Refunded
             ELSE settlements' = settlements]_vars

\* a settlement whose timestamp was recorded under the default timeout has
\* been refunded after the owner set the timeout to zero, at a time the
\* default timeout would not have allowed
C25_Witness ==
    /\ sv_last.op = "handle_failure"
    /\ sv_last.res = "Ok"
    /\ timeout_period = 0
    /\ get_settlement_status(sv_last.id) = SettlementStatus_Refunded
    /\ get_settlement_timestamp(sv_last.id) # 0
    /\ now > get_settlement_timestamp(sv_last.id)
    /\ now <= get_settlement_timestamp(sv_last.id) + DefaultTimeout

\* C26: from the first init on, as long as no further init happens, in every
\* state with no execute_full_route in flight get_intent_status is Completed
\* for the ids 1..intent_counter and Pending for id 0 and for every id above
\* the counter (in flight, the id counter + 1 is Executing instead).
C26_StatusLayout ==
    [][LET Layout(statuses, counter, pc) ==
               \A id \in IntentId :
                  statuses[id] =
                     IF 1 <= id /\ id <= counter THEN IntentStatus_Completed
                     ELSE IF pc # "idle" /\ id = counter + 1
                          THEN IntentStatus_Executing
                          ELSE IntentStatus_Pending
           Before == Layout(intent_statuses, intent_counter, re_pc)
           After == Layout(intent_statuses', intent_counter', re_pc')
           InitStep == Returns("init") /\ re_last'.res = "Ok"
       IN  /\ (InitStep /\ ~re_initialized) => After
           /\ (re_initialized /\ Before /\ ~InitStep) => After]_vars

\* C27: while the swap or bridge step of a route is in progress, its id is
\* counter + 1 and reads Executing, and locked is true; a status becomes
\* Completed, and the counter grows, only in the step in which the bridge
\* step returns, and then for that id.
C27_InFlight ==
    [][/\ re_pc' \in {"swap", "bridge"}
          => /\ re_frame'.intent_id = intent_counter' + 1
             /\ intent_statuses'[re_frame'.intent_id] = IntentStatus_Executing
             /\ locked'
       /\ \A id \in IntentId :
             (/\ intent_statuses[id] # IntentStatus_Completed
              /\ intent_statuses'[id] = IntentStatus_Completed)
                => /\ re_pc = "bridge" /\ re_pc' = "idle"
                   /\ id = re_frame.intent_id
                   /\ intent_counter' = id
       /\ intent_counter' > intent_counter
             => /\ re_pc = "bridge" /\ re_pc' = "idle"
                /\ intent_counter' = re_frame.intent_id]_vars

\* the second route is at its bridge step after a swap: id 2 is Executing,
\* the counter is still 1
C27_Witness ==
    /\ re_pc = "bridge"
    /\ locked
    /\ intent_counter = 1
    /\ re_frame.intent_id = 2
    /\ re_frame.swap_len > 0
    /\ get_intent_status(2) = IntentStatus_Executing
    /\ get_intent_status(1) = IntentStatus_Completed

\* C28: no intent status is ever Failed.
C28_NeverFailed ==
    \A id \in IntentId : get_intent_status(id) # IntentStatus_Failed

\* after a completed route, a call was refused at validation; every status
\* is Pending or Completed
C28_Witness ==
    /\ re_last.op = "execute_full_route"
    /\ re_last.res = "InvalidAddress"
    /\ ~re_last.nested
    /\ re_returned # {}
    /\ \A id \in IntentId :
          get_intent_status(id) \in {IntentStatus_Pending, IntentStatus_Completed}

\* C29: a handle_failure that changes a settlement or logs anything leaves
\* that settlement Refunded and every other one as it was, and has logged
\* SettlementFailed followed by RefundInitiated; no settlement reads Failed
\* after any call.
C29_FailedThenRefunded ==
    [][/\ (/\ SvReturns("handle_failure")
           /\ settlements' # settlements \/ sv_log' # <<>>)
          => /\ sv_last'.res = "Ok"
             /\ settlements' = [settlements EXCEPT
                                   ![sv_last'.id] = SettlementStatus_Refunded]
             /\ sv_log' = << <<"SettlementFailed", sv_last'.id>>,
                             <<"RefundInitiated", sv_last'.id>> >>
       /\ \A id \in SettleId : settlements'[id] # SettlementStatus_Failed]_vars

\* a handle_failure has just refunded a settlement and logged both events
C29_Witness ==
    /\ sv_last.op = "handle_failure"
    /\ sv_log = << <<"SettlementFailed", sv_last.id>>,
                   <<"RefundInitiated", sv_last.id>> >>
    /\ get_settlement_status(sv_last.id) = SettlementStatus_Refunded
    /\ has_settlement_timed_out(sv_last.id)

\* C30: whenever the settlement of an id is Confirmed, the id is between 1
\* and the intent counter of the RouteExecutor.
C30_ConfirmedWasStarted ==
    \A id \in SettleId :
       get_settlement_status(id) = SettlementStatus_Confirmed
          => 1 <= id /\ id <= intent_counter

\* C31: a settlement status that is Confirmed, Failed or Refunded is not
\* Pending after any step, a repeated init included.
C31_NeverBackToPending ==
    [][\A id \in SettleId :
          get_settlement_status(id) # SettlementStatus_Pending
             => settlements'[id] # SettlementStatus_Pending]_vars

\* a second successful init has run while a settlement was Refunded
C31_Witness ==
    /\ sv_last.op = "init"
    /\ sv_last.res = "Ok"
    /\ sv_last.n = 1
    /\ \E id \in SettleId : get_settlement_status(id) = SettlementStatus_Refunded

\* C32: the settlement timestamp of an id is write-once: only a successful
\* verify_ccip_message changes a timestamp, a non-zero timestamp never
\* changes again, and an id with a non-zero timestamp is not Pending.
C32_TimestampWriteOnce ==
    [][/\ settlement_timestamps' # settlement_timestamps
             => SvReturns("verify_ccip_message") /\ sv_last'.res = "Ok"
       /\ \A id \in SettleId :
             /\ get_settlement_timestamp(id) # 0
                   => settlement_timestamps'[id] = get_settlement_timestamp(id)
             /\ settlement_timestamps'[id] # 0
                   => settlements'[id] # SettlementStatus_Pending]_vars

\* a further verify_ccip_message by the bridge principal, at a later time
\* and after the settlement was refunded, has left the timestamp as it was
C32_Witness ==
    /\ sv_last.op = "verify_ccip_message"
    /\ sv_last.caller = sv_ccip_router
    /\ sv_last.id # 0
    /\ get_settlement_timestamp(sv_last.id) # 0
    /\ get_settlement_timestamp(sv_last.id) < now
    /\ get_settlement_status(sv_last.id) = SettlementStatus_Refunded

\* C33: at most one refund notification is logged per id: a handle_failure
\* for an id whose settlement is already Refunded writes no status and logs
\* nothing.
C33_SingleRefund ==
    [][(/\ SvReturns("handle_failure")
        /\ sv_last'.id # 0
        /\ get_settlement_status(sv_last'.id) = SettlementStatus_Refunded)
          => /\ settlements' = settlements
             /\ \A k \in 1..Len(sv_log') : sv_log'[k][1] # "RefundInitiated"]_vars

C35_OwnerGated ==
    [][/\ (re_owner # ZERO /\ re_last' # re_last /\ re_last'.caller # re_owner)
             => UNCHANGED <<re_owner, paused>>
       /\ (sv_owner # ZERO /\ sv_last' # sv_last /\ sv_last'.caller # sv_owner)
             => UNCHANGED <<sv_owner, timeout_period>>
       /\ (iv_owner # ZERO /\ iv_last' # iv_last /\ iv_last'.caller # iv_owner)
             => UNCHANGED <<iv_owner, supported_chains, supported_tokens>>]_vars

\* C36: on the same allow-lists, the same arguments and the same balance and
\* allowance, the validate_intent of lib.rs (mod active_contract) returns
\* the outcome that the validate_intent of intent_validator.rs returns.
C36_SameOutcome ==
    [][IvReturns("active_contract_validate_intent")
          => iv_last'.res = ValidationOutcome(iv_args.user, iv_args.token,
                                              iv_args.amount,
                                              iv_args.destination_chain,
                                              iv_args.spender, iv_args.balance,
                                              iv_args.allowance)]_vars

====
